---- MODULE Spec2Model ----
(***************************************************************************)
(* A model of the mistral-ocr front end and proxy: the page-selection      *)
(* parser and the API URL resolver (src/lib/api.ts), the OCR result        *)
(* normalizer (src/lib/ocr.ts), and the OCR handler of the proxy           *)
(* (api/ocr.ts).                                                           *)
(*                                                                         *)
(* JavaScript strings are sequences of one-character strings; JavaScript   *)
(* values that may be undefined, null, NaN, a number, a string or an array *)
(* are records tagged by "kind".                                           *)
(***************************************************************************)
EXTENDS Integers, Sequences, FiniteSets, TLC

VARIABLES
    parserRev,      \* which of the definitions of parsePageSelection in api.ts is bound
    pagesText,      \* App state `pages`: the text of the page-range field
    formPhase,      \* "editing" while the user types, "sent" after handleSubmit built the payload
    parsedPages,    \* handleSubmit's parsedPages = parsePageSelection(pages)
    pagesAccepted,  \* whether OcrRequestSchema accepted the payload's pages field
    handlerPages,   \* the multipart handler's local `pages`, parsed from fields.pages
    ocrPages,       \* result?.ocr?.pages as received from the proxy (engine-supplied)
    ocrPhase,       \* "receiving" while the response is assembled, "shown" once rendered
    displayPages,   \* useMemo(() => prepareDisplayPages(result?.ocr?.pages))
    viteApiBaseUrl, \* import.meta.env.VITE_API_BASE_URL, fixed when the front end is built
    windowHostname, \* window.location.hostname; undefined where there is no window
    apiPath,        \* the path last handed to resolveApiUrl
    apiUrl,         \* what resolveApiUrl returned for it
    handlerRev,     \* which revision of api/ocr.ts is deployed
    request,        \* req of the request being handled; undefined between requests
    handlerEnv,     \* process.env as the handler reads it for this request
    handlerPc,      \* "idle", the collaborator call the handler awaits, or "done"
    clientCreated,  \* whether getClient() returned a client for this request
    allowHeader,    \* the Allow header set on res; undefined when not set
    handlerQuery,   \* the handler's local `query`
    calls,          \* the collaborator calls made for this request, in order
    responses,      \* the responses sent on res for this request, in order
    settled,        \* how the collaborator calls made so far ended, in order
    viewerPages,    \* ResultsViewer's pages prop: the pageNumber of each display page
    currentPage,    \* ResultsViewer state currentPage
    activeTab,      \* ResultsViewer state activeTab
    zoom,           \* ResultsViewer state zoom
    clicked,        \* the page number of the mini-map entry clicked last, if that was the last event
    file,           \* App state file: the selected File, or null
    isSubmitting,   \* App state isSubmitting
    result,         \* App state result: the payload shown, or null
    error,          \* App state error: the message shown, or null
    isDragOver,     \* App state isDragOver
    uploadProgress, \* App state uploadProgress
    submitPc,       \* the await at which the running handleSubmit call stands; "idle" when none runs
    submitFile,     \* the `file` the running handleSubmit call closed over
    submitOutcome   \* how the last handleSubmit call ended: in its try block or in its catch block

vars == <<parserRev, pagesText, formPhase, parsedPages, pagesAccepted, handlerPages,
          ocrPages, ocrPhase, displayPages,
          viteApiBaseUrl, windowHostname, apiPath, apiUrl,
          handlerRev, request, handlerEnv, handlerPc, clientCreated,
          allowHeader, handlerQuery, calls, responses, settled,
          viewerPages, currentPage, activeTab, zoom, clicked,
          file, isSubmitting, result, error, isDragOver, uploadProgress,
          submitPc, submitFile, submitOutcome>>

parserVars == <<parserRev, pagesText, formPhase, parsedPages, pagesAccepted, handlerPages>>
ocrVars == <<ocrPages, ocrPhase, displayPages>>
resolverVars == <<viteApiBaseUrl, windowHostname, apiPath, apiUrl>>
handlerVars == <<handlerRev, request, handlerEnv, handlerPc, clientCreated,
                 allowHeader, handlerQuery, calls, responses, settled>>
viewerVars == <<viewerPages, currentPage, activeTab, zoom, clicked>>
appVars == <<file, isSubmitting, result, error, isDragOver, uploadProgress,
             submitPc, submitFile, submitOutcome>>

---------------------------------------------------------------------------
(* Bounds *)

\* longest page-range text the user types
MaxTextLen == 5

\* longest run of digits the user types
MaxDigits == 2

\* most pages in one OCR response
MaxPages == 2

---------------------------------------------------------------------------
(* JavaScript values *)

Undefined == [kind |-> "undefined"]
Null == [kind |-> "null"]
NaN == [kind |-> "NaN"]
Num(n) == [kind |-> "number", n |-> n]
Str(s) == [kind |-> "string", s |-> s]
Arr(items) == [kind |-> "array", items |-> items]

\* typeof v === 'number' (NaN is a number)
IsNumberType(v) == v.kind \in {"number", "NaN"}

\* Number.isFinite(v)
NumberIsFinite(v) == v.kind = "number"

\* Array.isArray(v)
IsArray(v) == v.kind = "array"

Range(s) == {s[i] : i \in 1..Len(s)}

---------------------------------------------------------------------------
(* Strings *)

DigitChars == <<"0", "1", "2", "3", "4", "5", "6", "7", "8", "9">>

\* \d
IsDigit(c) == \E d \in 1..10 : DigitChars[d] = c

DigitValue(c) == (CHOOSE d \in 1..10 : DigitChars[d] = c) - 1

\* the white space String.prototype.trim and parseInt strip
IsWhiteSpace(c) == c \in {" ", "\t", "\n", "\r"}

RECURSIVE TrimStart(_)
TrimStart(s) ==
    IF s # <<>> /\ IsWhiteSpace(Head(s)) THEN TrimStart(Tail(s)) ELSE s

RECURSIVE TrimEnd(_)
TrimEnd(s) ==
    IF s # <<>> /\ IsWhiteSpace(s[Len(s)])
    THEN TrimEnd(SubSeq(s, 1, Len(s) - 1))
    ELSE s

\* String.prototype.trim
Trim(s) == TrimEnd(TrimStart(s))

\* String.prototype.split(sep) for a one-character separator
RECURSIVE Split(_, _)
Split(s, sep) ==
    IF \E i \in 1..Len(s) : s[i] = sep
    THEN LET i == CHOOSE k \in 1..Len(s) :
                      s[k] = sep /\ \A j \in 1..(k - 1) : s[j] # sep
         IN  <<SubSeq(s, 1, i - 1)>> \o Split(SubSeq(s, i + 1, Len(s)), sep)
    ELSE <<s>>

AllDigits(s) == s # <<>> /\ \A i \in 1..Len(s) : IsDigit(s[i])

\* the value of a non-empty run of decimal digits
RECURSIVE DigitsValue(_)
DigitsValue(s) ==
    IF s = <<>> THEN 0
    ELSE 10 * DigitsValue(SubSeq(s, 1, Len(s) - 1)) + DigitValue(s[Len(s)])

\* the longest prefix of s made of digits
RECURSIVE DigitPrefix(_)
DigitPrefix(s) ==
    IF s # <<>> /\ IsDigit(Head(s)) THEN <<Head(s)>> \o DigitPrefix(Tail(s)) ELSE <<>>

\* Number.parseInt(s, 10): leading white space, an optional sign, then the
\* longest run of digits; NaN when that run is empty. Whatever follows the
\* run is ignored.
ParseInt(s) ==
    LET t == TrimStart(s)
        signed == t # <<>> /\ Head(t) \in {"+", "-"}
        body == IF signed THEN Tail(t) ELSE t
        digits == DigitPrefix(body)
    IN  IF digits = <<>> THEN NaN
        ELSE IF signed /\ Head(t) = "-" THEN Num(0 - DigitsValue(digits))
        ELSE Num(DigitsValue(digits))

---------------------------------------------------------------------------
(* parsePageSelection *)

\* segment.match(/^(\d+)-(\d+)$/)
RangeMatch(segment) ==
    \E k \in 2..(Len(segment) - 1) :
        /\ segment[k] = "-"
        /\ AllDigits(SubSeq(segment, 1, k - 1))
        /\ AllDigits(SubSeq(segment, k + 1, Len(segment)))

\* position of the "-" of a segment that matches the range pattern
DashAt(segment) ==
    CHOOSE k \in 2..(Len(segment) - 1) :
        /\ segment[k] = "-"
        /\ AllDigits(SubSeq(segment, 1, k - 1))
        /\ AllDigits(SubSeq(segment, k + 1, Len(segment)))

\* rangeMatch[1], rangeMatch[2]
RangeStartText(segment) == SubSeq(segment, 1, DashAt(segment) - 1)
RangeEndText(segment) == SubSeq(segment, DashAt(segment) + 1, Len(segment))

\* Set.prototype.add on a Set kept in insertion order
SetAdd(pages, page) ==
    IF page \in Range(pages) THEN pages ELSE Append(pages, page)

\* for (let page = start; page <= end; page += 1) pages.add(page):
\* start..end in order, each added unless the Set holds it already
AddRange(pages, start, end) ==
    LET run == [i \in 1..(end - start + 1) |-> start + i - 1]
    IN  pages \o SelectSeq(run, LAMBDA page : page \notin Range(pages))

\* one step of Array.prototype.sort((a, b) => a - b): x goes after the
\* elements e of the ascending sequence with e - x <= 0
InsertSorted(sorted, x) ==
    LET k == Cardinality({i \in 1..Len(sorted) : sorted[i] - x <= 0})
    IN  SubSeq(sorted, 1, k) \o <<x>> \o SubSeq(sorted, k + 1, Len(sorted))

RECURSIVE SortAscending(_)
SortAscending(s) ==
    IF s = <<>> THEN <<>>
    ELSE InsertSorted(SortAscending(SubSeq(s, 1, Len(s) - 1)), s[Len(s)])

\* The definitions of parsePageSelection held by api.ts: the one at line 126
\* drops a range whose start is 0, the ones at lines 64 and 200 do not.
ParserRevs == {"rejectZeroStart", "acceptZeroStart"}

\* the guard that skips a range: `start === 0 || start > end` (line 144)
\* or `start > end` (lines 84 and 218)
RangeSkipped(rev, start, end) ==
    IF rev = "rejectZeroStart" THEN start = 0 \/ start > end ELSE start > end

\* the body of the loop over the segments
RECURSIVE CollectPages(_, _, _)
CollectPages(rev, segments, pages) ==
    IF segments = <<>> THEN pages
    ELSE LET segment == Head(segments)
             rest == Tail(segments)
         IN  IF segment = <<>> THEN CollectPages(rev, rest, pages)
             ELSE IF RangeMatch(segment)
             THEN LET start == ParseInt(RangeStartText(segment)).n
                      end == ParseInt(RangeEndText(segment)).n
                  IN  IF RangeSkipped(rev, start, end)
                      THEN CollectPages(rev, rest, pages)
                      ELSE CollectPages(rev, rest, AddRange(pages, start, end))
             ELSE LET pageNumber == ParseInt(segment)
                  IN  IF NumberIsFinite(pageNumber) /\ pageNumber.n > 0
                      THEN CollectPages(rev, rest, SetAdd(pages, pageNumber.n))
                      ELSE CollectPages(rev, rest, pages)

\* trimmed.split(',').map((segment) => segment.trim())
Segments(trimmed) ==
    LET parts == Split(trimmed, ",")
    IN  [i \in 1..Len(parts) |-> Trim(parts[i])]

parsePageSelectionRev(rev, value) ==
    LET trimmed == Trim(value)
    IN  IF trimmed = <<>> THEN Undefined
        ELSE LET pages == CollectPages(rev, Segments(trimmed), <<>>)
             IN  IF Len(pages) # 0 THEN Arr(SortAscending(pages)) ELSE Undefined

parsePageSelection(value) == parsePageSelectionRev(parserRev, value)

\* OcrRequestSchema: pages: z.array(z.number().int().positive()).optional()
PagesSchemaAccepts(pages) ==
    \/ pages = Undefined
    \/ /\ IsArray(pages)
       /\ \A i \in 1..Len(pages.items) : pages.items[i] \in Int /\ pages.items[i] > 0

---------------------------------------------------------------------------
(* The page-range field and its submission *)

\* the characters the user types into the page-range field
TextChars == {"0", "1", "2", "-", ",", " ", "a"}

\* the number of digits that end s
RECURSIVE TrailingDigits(_)
TrailingDigits(s) ==
    IF s # <<>> /\ IsDigit(s[Len(s)])
    THEN 1 + TrailingDigits(SubSeq(s, 1, Len(s) - 1))
    ELSE 0

\* onChange={(event) => setPages(event.target.value)}: one more character
SetPages(c) ==
    /\ formPhase = "editing"
    /\ Len(pagesText) < MaxTextLen
    /\ IsDigit(c) => TrailingDigits(pagesText) < MaxDigits
    /\ pagesText' = Append(pagesText, c)
    /\ UNCHANGED <<parserRev, formPhase, parsedPages, pagesAccepted, handlerPages, ocrVars, resolverVars, handlerVars, viewerVars, appVars>>

\* handleSubmit: parsedPages = parsePageSelection(pages) goes into the payload,
\* whose pages field the handler validates with OcrRequestSchema
SubmitPages ==
    /\ formPhase = "editing"
    /\ formPhase' = "sent"
    /\ parsedPages' = parsePageSelection(pagesText)
    /\ pagesAccepted' = PagesSchemaAccepts(parsedPages')
    /\ UNCHANGED <<parserRev, pagesText, handlerPages, ocrVars, resolverVars, handlerVars, viewerVars, appVars>>

\* the pages one segment of fields.pages contributes (the flatMap callback)
SegmentPages(seg) ==
    IF RangeMatch(seg)
    THEN LET start == ParseInt(RangeStartText(seg)).n
             end == ParseInt(RangeEndText(seg)).n
         IN  IF start > 0 /\ end >= start
             THEN [i \in 1..(end - start + 1) |-> start + i - 1]
             ELSE <<>>
    ELSE LET n == ParseInt(seg)
         IN  IF NumberIsFinite(n) /\ n.n > 0 THEN <<n.n>> ELSE <<>>

\* Array.prototype.flatMap over the segments
RECURSIVE FlatMapSegments(_)
FlatMapSegments(segments) ==
    IF segments = <<>> THEN <<>>
    ELSE SegmentPages(Head(segments)) \o FlatMapSegments(Tail(segments))

\* filter((v, i, a) => a.indexOf(v) === i): the first occurrence of each value
FirstOccurrences(a) ==
    LET keep == {i \in 1..Len(a) : \A j \in 1..(i - 1) : a[j] # a[i]}
        position(k) == CHOOSE i \in keep : Cardinality({j \in keep : j <= i}) = k
    IN  [k \in 1..Cardinality(keep) |-> a[position(k)]]

\* the multipart handler's parsing of fields.pages: `pages` stays undefined
\* for a blank string and is an array, empty or not, for any other
MultipartPages(pagesStr) ==
    IF Trim(pagesStr) = <<>> THEN Undefined
    ELSE LET parts == Split(pagesStr, ",")
             segments == [i \in 1..Len(parts) |-> Trim(parts[i])]
         IN  Arr(SortAscending(FirstOccurrences(FlatMapSegments(segments))))

\* the text that was submitted reaches the handler as the pages field of a
\* multipart request
ReceiveFields ==
    /\ formPhase = "sent"
    /\ formPhase' = "received"
    /\ handlerPages' = MultipartPages(pagesText)
    /\ UNCHANGED <<parserRev, pagesText, parsedPages, pagesAccepted, ocrVars, resolverVars, handlerVars, viewerVars, appVars>>

\* the user empties the field for another submission
ClearPages ==
    /\ formPhase \in {"sent", "received"}
    /\ formPhase' = "editing"
    /\ pagesText' = <<>>
    /\ parsedPages' = Undefined
    /\ pagesAccepted' = TRUE
    /\ handlerPages' = Undefined
    /\ UNCHANGED <<parserRev, ocrVars, resolverVars, handlerVars, viewerVars, appVars>>

---------------------------------------------------------------------------
(* prepareDisplayPages *)

\* Boolean(v)
ToBoolean(v) ==
    CASE v.kind \in {"undefined", "null", "NaN"} -> FALSE
      [] v.kind = "number" -> v.n # 0
      [] v.kind = "string" -> v.s # <<>>
      [] OTHER -> TRUE

\* an OcrBlock with a type and a text
Block(type, text) == [kind |-> "object", type |-> type, text |-> text]

\* an OcrPage; a field the engine left out reads as undefined
OcrPage(pageNumber, index, markdown, textBlocks) ==
    [kind |-> "object", pageNumber |-> pageNumber, index |-> index,
     markdown |-> markdown, textBlocks |-> textBlocks]

\* a variant that takes index as a page number counted from 1
normalizePageNumberIndexFromOne(page, index) ==
    IF IsNumberType(page.pageNumber) /\ NumberIsFinite(page.pageNumber)
    THEN page.pageNumber.n
    ELSE IF IsNumberType(page.index) /\ NumberIsFinite(page.index) /\ page.index.n > 0
    THEN page.index.n
    ELSE index + 1

normalizePageNumber(page, index) ==
    IF IsNumberType(page.pageNumber) /\ NumberIsFinite(page.pageNumber)
    THEN page.pageNumber.n
    ELSE IF IsNumberType(page.index) /\ NumberIsFinite(page.index)
    THEN page.index.n + 1
    ELSE index + 1

\* a variant that keeps every entry of the array
sanitizeBlocksUnfiltered(blocks) ==
    IF ~IsArray(blocks) THEN <<>>
    ELSE blocks.items

sanitizeBlocks(blocks) ==
    IF ~IsArray(blocks) THEN <<>>
    ELSE SelectSeq(blocks.items, ToBoolean)

\* a variant that forgets to trim
DisplayMarkdownUntrimmed(page) ==
    IF page.markdown.kind = "string" THEN page.markdown.s ELSE <<>>

\* typeof page.markdown === 'string' ? page.markdown.trim() : ''
DisplayMarkdown(page) ==
    IF page.markdown.kind = "string" THEN Trim(page.markdown.s) ELSE <<>>

\* the callback of pages.map: `index` is the zero-based array position
DisplayPage(page, index) ==
    [pageNumber |-> normalizePageNumber(page, index),
     blocks |-> sanitizeBlocks(page.textBlocks),
     markdown |-> DisplayMarkdown(page)]

\* reading page.textBlocks of a null or undefined entry throws a TypeError
Thrown == [kind |-> "throw", error |-> "TypeError"]

\* a variant that merges the pages that repeat an earlier page number
prepareDisplayPagesMerged(pages) ==
    IF ~IsArray(pages) THEN Arr(<<>>)
    ELSE IF \E i \in 1..Len(pages.items) : pages.items[i].kind \in {"null", "undefined"}
    THEN Thrown
    ELSE LET all == [i \in 1..Len(pages.items) |-> DisplayPage(pages.items[i], i - 1)]
             kept == SelectSeq([i \in 1..Len(all) |-> i],
                               LAMBDA i : \A j \in 1..(i - 1) :
                                              all[j].pageNumber # all[i].pageNumber)
         IN  Arr([k \in 1..Len(kept) |-> all[kept[k]]])

prepareDisplayPages(pages) ==
    IF ~IsArray(pages) THEN Arr(<<>>)
    ELSE IF \E i \in 1..Len(pages.items) : pages.items[i].kind \in {"null", "undefined"}
    THEN Thrown
    ELSE Arr([i \in 1..Len(pages.items) |-> DisplayPage(pages.items[i], i - 1)])

---------------------------------------------------------------------------
(* The OCR response and its display *)

\* engine-supplied values of pageNumber and index
NumberInputs == {Undefined, NaN, Num(-1), Num(0), Num(1), Num(2)}

\* engine-supplied values of markdown
MarkdownInputs == {Undefined, Null, Str(<<" ">>), Str(<<" ", "H", "i", " ">>)}

TitleBlock == Block("title", <<"H", "i">>)
ParagraphBlock == Block("paragraph", <<"i">>)

\* engine-supplied values of textBlocks
TextBlocksInputs ==
    {Undefined, Arr(<<>>), Arr(<<Null, TitleBlock>>),
     Arr(<<ParagraphBlock, Undefined, TitleBlock>>)}

\* the entries an engine response may hold: pages that differ in their
\* numbering, pages that differ in their content, and a null entry
PageInputs ==
    {OcrPage(n, i, Str(<<"H", "i">>), Undefined) : n \in NumberInputs, i \in NumberInputs}
    \cup {OcrPage(Undefined, Undefined, m, b) : m \in MarkdownInputs, b \in TextBlocksInputs}
    \cup {Null}

\* the response carries a pages array
ReceivePagesArray ==
    /\ ocrPhase = "receiving"
    /\ ocrPages = Undefined
    /\ ocrPages' = Arr(<<>>)
    /\ UNCHANGED <<ocrPhase, displayPages, parserVars, resolverVars, handlerVars, viewerVars, appVars>>

\* the pages array holds one more entry
ReceivePage(page) ==
    /\ ocrPhase = "receiving"
    /\ IsArray(ocrPages)
    /\ Len(ocrPages.items) < MaxPages
    /\ ocrPages' = Arr(Append(ocrPages.items, page))
    /\ UNCHANGED <<ocrPhase, displayPages, parserVars, resolverVars, handlerVars, viewerVars, appVars>>

\* setResult(data): displayPages = prepareDisplayPages(result?.ocr?.pages)
ShowResult ==
    /\ ocrPhase = "receiving"
    /\ ocrPhase' = "shown"
    /\ displayPages' = prepareDisplayPages(ocrPages)
    /\ UNCHANGED <<ocrPages, parserVars, resolverVars, handlerVars, viewerVars, appVars>>

\* setResult(null): result?.ocr?.pages is undefined again
ClearResult ==
    /\ ocrPhase = "shown"
    /\ ocrPhase' = "receiving"
    /\ ocrPages' = Undefined
    /\ displayPages' = prepareDisplayPages(Undefined)
    /\ UNCHANGED <<parserVars, resolverVars, handlerVars, viewerVars, appVars>>

---------------------------------------------------------------------------
(* URLs: new URL(path, base), url.hostname and url.toString() for http and  *)
(* https URLs whose host is already written the way the URL parser writes  *)
(* it (lower case, dotted-quad addresses, bracketed IPv6)                   *)

HttpScheme == <<"h", "t", "t", "p">>
HttpsScheme == <<"h", "t", "t", "p", "s">>
SchemeEnd == <<":", "/", "/">>

StartsWith(s, prefix) ==
    Len(s) >= Len(prefix) /\ SubSeq(s, 1, Len(prefix)) = prefix

\* String.prototype.indexOf for one character, counted from 1; 0 when absent
IndexOf(s, c) ==
    IF \E i \in 1..Len(s) : s[i] = c
    THEN CHOOSE i \in 1..Len(s) : s[i] = c /\ \A j \in 1..(i - 1) : s[j] # c
    ELSE 0

\* the port the URL parser leaves out of the URL
DefaultPort(scheme) == IF scheme = HttpScheme THEN <<"8", "0">> ELSE <<"4", "4", "3">>

\* new URL(s) for an absolute URL; a TypeError when s has no http or https
\* scheme, no host, or a port that is not a number
ParseAbsoluteUrl(s) ==
    LET scheme == IF StartsWith(s, HttpsScheme \o SchemeEnd) THEN HttpsScheme
                  ELSE IF StartsWith(s, HttpScheme \o SchemeEnd) THEN HttpScheme
                  ELSE <<>>
        rest == SubSeq(s, Len(scheme) + Len(SchemeEnd) + 1, Len(s))
        slash == IndexOf(rest, "/")
        authority == IF slash = 0 THEN rest ELSE SubSeq(rest, 1, slash - 1)
        pathname == IF slash = 0 THEN <<"/">> ELSE SubSeq(rest, slash, Len(rest))
        colon == IndexOf(authority, ":")
        hostEnd == IF authority # <<>> /\ Head(authority) = "[" THEN IndexOf(authority, "]")
                   ELSE IF colon = 0 THEN Len(authority)
                   ELSE colon - 1
        hostname == SubSeq(authority, 1, hostEnd)
        after == SubSeq(authority, hostEnd + 1, Len(authority))
        port == IF after = <<>> THEN <<>> ELSE Tail(after)
    IN  IF \/ scheme = <<>>
           \/ hostname = <<>>
           \/ \E i \in 1..Len(hostname) : IsWhiteSpace(hostname[i])
           \/ after # <<>> /\ Head(after) # ":"
           \/ port # <<>> /\ ~AllDigits(port)
        THEN Thrown
        ELSE [kind |-> "url", protocol |-> scheme, hostname |-> hostname,
              port |-> IF port = DefaultPort(scheme) THEN <<>> ELSE port,
              pathname |-> pathname]

\* the directory of a path: the path up to its last "/"
DirectoryOf(pathname) ==
    SubSeq(pathname, 1,
           CHOOSE i \in 1..Len(pathname) :
               pathname[i] = "/" /\ \A j \in (i + 1)..Len(pathname) : pathname[j] # "/")

\* new URL(path, base): base undefined means new URL(path); a base that
\* does not parse is a TypeError whatever the path; an absolute path
\* replaces the base, a relative one is resolved against it
NewURL(path, base) ==
    IF base = Undefined THEN ParseAbsoluteUrl(path)
    ELSE LET baseUrl == ParseAbsoluteUrl(base.s)
             own == ParseAbsoluteUrl(path)
         IN  IF baseUrl = Thrown THEN Thrown
             ELSE IF own # Thrown THEN own
             ELSE IF path = <<>> THEN baseUrl
             ELSE IF Head(path) = "/" THEN [baseUrl EXCEPT !.pathname = path]
             ELSE [baseUrl EXCEPT !.pathname = DirectoryOf(baseUrl.pathname) \o path]

\* url.toString()
UrlToString(url) ==
    url.protocol \o SchemeEnd \o url.hostname
        \o (IF url.port = <<>> THEN <<>> ELSE <<":">> \o url.port)
        \o url.pathname

---------------------------------------------------------------------------
(* createApiUrlResolver *)

LocalhostLabel == <<"l", "o", "c", "a", "l", "h", "o", "s", "t">>

\* (?:[^.]+\.)*localhost
MatchesLocalhost(t) ==
    LET labels == Split(t, ".")
    IN  /\ labels[Len(labels)] = LocalhostLabel
        /\ \A i \in 1..(Len(labels) - 1) : labels[i] # <<>>

\* 127(?:\.\d{1,3}){3}
MatchesLoopbackAddress(t) ==
    LET labels == Split(t, ".")
    IN  /\ Len(labels) = 4
        /\ labels[1] = <<"1", "2", "7">>
        /\ \A i \in 2..4 : AllDigits(labels[i]) /\ Len(labels[i]) <= 3

\* \[?::1\]?
MatchesLoopbackIpv6(t) ==
    t \in {<<":", ":", "1">>, <<"[", ":", ":", "1">>,
           <<":", ":", "1", "]">>, <<"[", ":", ":", "1", "]">>}

\* /^(...localhost|127.d.d.d|[::1])(?:$|:)/i.test(hostname), for hostnames in
\* lower case: one of the alternatives matches a prefix that ends the
\* hostname or is followed by ":"
LOOPBACK_HOST_PATTERN(hostname) ==
    \E p \in 0..Len(hostname) :
        /\ p = Len(hostname) \/ hostname[p + 1] = ":"
        /\ LET t == SubSeq(hostname, 1, p)
           IN  MatchesLocalhost(t) \/ MatchesLoopbackAddress(t) \/ MatchesLoopbackIpv6(t)

\* a variant that takes every hostname that starts with "127." as loopback
isLoopbackHostByPrefix(hostname) ==
    \/ LOOPBACK_HOST_PATTERN(hostname)
    \/ StartsWith(hostname, <<"1", "2", "7", ".">>)

isLoopbackHost(hostname) == LOOPBACK_HOST_PATTERN(hostname)

\* configuredBaseUrl?.trim()
TrimmedBase(configuredBaseUrl) ==
    IF configuredBaseUrl = Undefined THEN Undefined ELSE Str(Trim(configuredBaseUrl.s))

\* a variant without the loopback guard
createApiUrlResolverUnguarded(configuredBaseUrl, currentHost, path) ==
    LET trimmedBase == TrimmedBase(configuredBaseUrl)
    IN  IF ~ToBoolean(trimmedBase) THEN Str(path)
        ELSE LET url == NewURL(path, trimmedBase)
             IN  IF url = Thrown THEN Str(path)
                 ELSE Str(UrlToString(url))

\* a variant without the early return for a missing base
createApiUrlResolverAlwaysResolves(configuredBaseUrl, currentHost, path) ==
    LET trimmedBase == TrimmedBase(configuredBaseUrl)
        url == NewURL(path, trimmedBase)
    IN  IF url = Thrown THEN Str(path)
        ELSE IF /\ currentHost # Undefined
                /\ ~isLoopbackHost(currentHost.s)
                /\ isLoopbackHost(url.hostname)
        THEN Str(path)
        ELSE Str(UrlToString(url))

\* a variant that lets the TypeError of new URL escape
createApiUrlResolverUncaught(configuredBaseUrl, currentHost, path) ==
    LET trimmedBase == TrimmedBase(configuredBaseUrl)
    IN  IF ~ToBoolean(trimmedBase) THEN Str(path)
        ELSE LET url == NewURL(path, trimmedBase)
             IN  IF url = Thrown THEN Thrown
                 ELSE IF /\ currentHost # Undefined
                         /\ ~isLoopbackHost(currentHost.s)
                         /\ isLoopbackHost(url.hostname)
                 THEN Str(path)
                 ELSE Str(UrlToString(url))

\* createApiUrlResolver(configuredBaseUrl)(path), where currentHost is
\* window.location.hostname, or undefined when there is no window
createApiUrlResolver(configuredBaseUrl, currentHost, path) ==
    LET trimmedBase == TrimmedBase(configuredBaseUrl)
    IN  IF ~ToBoolean(trimmedBase) THEN Str(path)
        ELSE LET url == NewURL(path, trimmedBase)
             IN  IF url = Thrown THEN Str(path)
                 ELSE IF /\ currentHost # Undefined
                         /\ ~isLoopbackHost(currentHost.s)
                         /\ isLoopbackHost(url.hostname)
                 THEN Str(path)
                 ELSE Str(UrlToString(url))

\* hostnames: localhost, a.localhost, 127.0.0.1, 127.a.io, [::1], api.io,
\* localhost.io
HostInputs ==
    {LocalhostLabel,
     <<"a", ".">> \o LocalhostLabel,
     <<"1", "2", "7", ".", "0", ".", "0", ".", "1">>,
     <<"1", "2", "7", ".", "a", ".", "i", "o">>,
     <<"[", ":", ":", "1", "]">>,
     <<"a", "p", "i", ".", "i", "o">>,
     LocalhostLabel \o <<".", "i", "o">>}

\* values of VITE_API_BASE_URL: unset, empty, white space, a host without a
\* scheme, and URLs with and without a port and surrounding white space
BaseUrlInputs ==
    {Undefined, Str(<<>>), Str(<<" ">>), Str(<<"a", "p", "i", ".", "i", "o">>)}
    \cup {Str(pad \o scheme \o SchemeEnd \o host \o port \o pad) :
              pad \in {<<>>, <<" ">>},
              scheme \in {HttpScheme, HttpsScheme},
              host \in HostInputs,
              port \in {<<>>, <<":", "3", "0", "0", "0">>}}

\* the page's hostname: none (no window), or one of the hostnames
WindowHostInputs == {Undefined} \cup {Str(host) : host \in HostInputs}

\* paths: /api/ocr, the empty path, and absolute URLs http://localhost and
\* https://api.io/v
PathInputs ==
    {<<"/", "a", "p", "i", "/", "o", "c", "r">>,
     <<>>,
     HttpScheme \o SchemeEnd \o LocalhostLabel,
     HttpsScheme \o SchemeEnd \o <<"a", "p", "i", ".", "i", "o", "/", "v">>}

\* the front end is built with a value of VITE_API_BASE_URL
BuildWithBaseUrl(base) ==
    /\ apiUrl = Undefined
    /\ viteApiBaseUrl' = base
    /\ UNCHANGED <<windowHostname, apiPath, apiUrl, parserVars, ocrVars, handlerVars, viewerVars, appVars>>

\* the page is opened under a hostname
OpenPage(host) ==
    /\ apiUrl = Undefined
    /\ windowHostname' = host
    /\ UNCHANGED <<viteApiBaseUrl, apiPath, apiUrl, parserVars, ocrVars, handlerVars, viewerVars, appVars>>

\* resolveApiUrl(path)
resolveApiUrl(path) ==
    /\ apiUrl = Undefined
    /\ apiPath' = Str(path)
    /\ apiUrl' = createApiUrlResolver(viteApiBaseUrl, windowHostname, path)
    /\ UNCHANGED <<viteApiBaseUrl, windowHostname, parserVars, ocrVars, handlerVars, viewerVars, appVars>>

\* the URL was used; the next call resolves again
ForgetApiUrl ==
    /\ apiUrl # Undefined
    /\ apiPath' = Undefined
    /\ apiUrl' = Undefined
    /\ UNCHANGED <<viteApiBaseUrl, windowHostname, parserVars, ocrVars, handlerVars, viewerVars, appVars>>

---------------------------------------------------------------------------
(* The OCR handler (api/ocr.ts) *)

\* the revisions of the handler: api/ocr.ts as it stands ("plain"), and the
\* one that validates the body with OcrRequestSchema and limits the upload
\* size ("validated")
HandlerRevs == {"plain", "validated"}

\* a base64 string, known by its length and its count of trailing "="
Base64(length, padding) == [kind |-> "base64", length |-> length, padding |-> padding]

\* Buffer.from(fileBase64, 'base64').length
DecodedLength(fileBase64) == (fileBase64.length \div 4) * 3 - fileBase64.padding

\* Number(s) for the strings of digits; NaN for the other non-blank strings
ToNumber(s) ==
    IF Trim(s) = <<>> THEN Num(0)
    ELSE IF AllDigits(Trim(s)) THEN Num(DigitsValue(Trim(s)))
    ELSE NaN

\* fromEnv ? Number(fromEnv) : Math.round(4.5 * 1024 * 1024)
getMaxUploadBytes(env) ==
    IF ToBoolean(env.MAX_UPLOAD_BYTES) THEN ToNumber(env.MAX_UPLOAD_BYTES.s)
    ELSE Num(4718592)

\* fileBuffer.length > maxUploadBytes; false when maxUploadBytes is NaN
ExceedsMax(length, maxUploadBytes) ==
    maxUploadBytes.kind = "number" /\ length > maxUploadBytes.n

\* a variant that does not trim
normalizeTextUntrimmed(value) ==
    IF value.kind # "string" THEN Undefined
    ELSE IF Len(value.s) # 0 THEN value ELSE Undefined

normalizeText(value) ==
    IF value.kind # "string" THEN Undefined
    ELSE LET trimmed == Trim(value.s)
         IN  IF Len(trimmed) # 0 THEN Str(trimmed) ELSE Undefined

\* a variant that takes the empty string for a file
FileBase64MissingOnlyUndefined(body) ==
    \/ body = Undefined
    \/ body.fileBase64 = Undefined

\* !body?.fileBase64
FileBase64Missing(body) ==
    \/ body = Undefined
    \/ body.fileBase64 = Undefined
    \/ body.fileBase64.length = 0

\* OcrRequestSchema.safeParse(req.body).success, for bodies whose fileName
\* and includeImageBase64 are well typed
OcrRequestSchema(body) ==
    /\ body # Undefined
    /\ body.fileBase64 # Undefined /\ body.fileBase64.length >= 1
    /\ PagesSchemaAccepts(body.pages)
    /\ body.query.kind \in {"string", "null", "undefined"}

\* res.status(status).json({ error: message }) in api/ocr.ts,
\* sendError(res, status, code, message) in the validated revision
ErrorResponse(rev, status, code, message) ==
    IF rev = "plain"
    THEN [status |-> status, error |-> [message |-> message]]
    ELSE [status |-> status, error |-> [code |-> code, message |-> message]]

\* process.env.MISTRAL_QA_MODEL ?? 'mistral-small-latest'
QaModel ==
    Str(<<"m", "i", "s", "t", "r", "a", "l", "-", "s", "m", "a", "l", "l",
          "-", "l", "a", "t", "e", "s", "t">>)

\* res.status(200).json({ documentUrl, ocr, answer, model, qaModel })
SuccessResponse(answer, query) ==
    [status |-> 200, documentUrl |-> "signedUrl.url", ocr |-> "ocrResponse",
     answer |-> answer, model |-> "mistral-ocr-latest",
     qaModel |-> IF ToBoolean(query) THEN QaModel ELSE Undefined]

\* error instanceof Error ? error.message : 'Unexpected server error.'
ErrorMessage(outcome) ==
    IF outcome = "error" THEN "collaborator failed" ELSE "Unexpected server error."

\* the answer taken from chatResponse.choices?.[0]?.message?.content
ExtractAnswer(messageContent) ==
    IF IsArray(messageContent)
    THEN IF \E i \in 1..Len(messageContent.items) : messageContent.items[i].type = "text"
         THEN LET i == CHOOSE k \in 1..Len(messageContent.items) :
                           /\ messageContent.items[k].type = "text"
                           /\ \A j \in 1..(k - 1) : messageContent.items[j].type # "text"
              IN  Str(messageContent.items[i].text)
         ELSE Undefined
    ELSE IF messageContent.kind = "string" THEN messageContent
    ELSE Undefined

\* the handler up to its first await: the response it sends, or the call of
\* files.upload
HandlerStart(rev, req, env) ==
    LET body == req.body
        stop(response, created, allow) ==
            [pc |-> "done", responses |-> <<response>>, clientCreated |-> created,
             allowHeader |-> allow, query |-> Undefined, calls |-> <<>>]
    IN  IF req.method # "POST"
        THEN stop(ErrorResponse(rev, 405, "METHOD_NOT_ALLOWED", "Method Not Allowed"),
                  FALSE, Str(<<"P", "O", "S", "T">>))
        ELSE IF rev = "plain" /\ FileBase64Missing(body)
        THEN stop(ErrorResponse(rev, 400, "INVALID_REQUEST", "fileBase64 is required."),
                  FALSE, Undefined)
        ELSE IF rev = "validated" /\ ~OcrRequestSchema(body)
        THEN stop(ErrorResponse(rev, 400, "INVALID_REQUEST", "Invalid request body."),
                  FALSE, Undefined)
        ELSE IF ~ToBoolean(env.MISTRAL_API_KEY)
        THEN stop(ErrorResponse(rev, 500, "INTERNAL_SERVER_ERROR",
                                "Missing MISTRAL_API_KEY environment variable."),
                  FALSE, Undefined)
        ELSE IF /\ rev = "validated"
                /\ ExceedsMax(DecodedLength(body.fileBase64), getMaxUploadBytes(env))
        THEN stop(ErrorResponse(rev, 413, "PAYLOAD_TOO_LARGE", "File too large."),
                  TRUE, Undefined)
        ELSE [pc |-> "files.upload", responses |-> <<>>, clientCreated |-> TRUE,
              allowHeader |-> Undefined, query |-> normalizeText(body.query),
              calls |-> <<"files.upload">>]

\* the fileBase64 values of a body: none, the empty string, and files of
\* 12, 13, 4718592 and 4718593 bytes
FileBase64Inputs ==
    {Undefined, Base64(0, 0), Base64(16, 0), Base64(20, 2),
     Base64(6291456, 0), Base64(6291460, 2)}

\* the query values of a body
QueryInputs == {Undefined, Null, Str(<<" ">>), Str(<<" ", "q", " ">>), Num(5)}

\* the pages values of a body
PagesBodyInputs == {Undefined, Arr(<<1, 2>>), Arr(<<0>>)}

\* req.body: missing, or an object
BodyInputs ==
    {Undefined}
    \cup {[fileBase64 |-> f, query |-> q, pages |-> p] :
              f \in FileBase64Inputs, q \in QueryInputs, p \in PagesBodyInputs}

RequestInputs == {[method |-> m, body |-> b] : m \in {"POST", "GET"}, b \in BodyInputs}

\* process.env: the API key set or not, the size limit unset, 12, or not a number
EnvInputs ==
    {[MISTRAL_API_KEY |-> k, MAX_UPLOAD_BYTES |-> m] :
         k \in {Undefined, Str(<<"k">>)},
         m \in {Undefined, Str(<<"1", "2">>), Str(<<"a">>)}}

\* how an awaited collaborator call ends: it resolves, it rejects with an
\* Error, or it rejects with a value that is not an Error
OutcomeInputs == {"ok", "error", "nonError"}

\* choices?.[0]?.message?.content of a chat response
ChatContentInputs ==
    {Undefined, Str(<<"a">>),
     Arr(<<[type |-> "image_url"], [type |-> "text", text |-> <<"a">>]>>),
     Arr(<<[type |-> "image_url"]>>)}

\* a variant that does not set the Allow header
ReceiveRequestWithoutAllow(req, env) ==
    /\ handlerPc = "idle"
    /\ LET start == HandlerStart(handlerRev, req, env)
       IN  /\ handlerPc' = start.pc
           /\ responses' = start.responses
           /\ clientCreated' = start.clientCreated
           /\ allowHeader' = Undefined
           /\ handlerQuery' = start.query
           /\ calls' = start.calls
    /\ request' = req
    /\ handlerEnv' = env
    /\ UNCHANGED <<handlerRev, settled, parserVars, ocrVars, resolverVars, viewerVars, appVars>>

\* handler(req, res) runs up to its first await
ReceiveRequest(req, env) ==
    /\ handlerPc = "idle"
    /\ LET start == HandlerStart(handlerRev, req, env)
       IN  /\ handlerPc' = start.pc
           /\ responses' = start.responses
           /\ clientCreated' = start.clientCreated
           /\ allowHeader' = start.allowHeader
           /\ handlerQuery' = start.query
           /\ calls' = start.calls
    /\ request' = req
    /\ handlerEnv' = env
    /\ UNCHANGED <<handlerRev, settled, parserVars, ocrVars, resolverVars, viewerVars, appVars>>

\* a variant without the catch block: the rejection escapes the handler and
\* no response is sent
CatchNothing(outcome) ==
    /\ handlerPc' = "done"
    /\ UNCHANGED <<responses, calls>>

\* the catch block: the awaited call rejected
Catch(outcome) ==
    /\ responses' = Append(responses,
                           ErrorResponse(handlerRev, 500, "INTERNAL_SERVER_ERROR",
                                         ErrorMessage(outcome)))
    /\ handlerPc' = "done"
    /\ UNCHANGED calls

\* the handler goes on to its next collaborator call
Call(name) ==
    /\ calls' = Append(calls, name)
    /\ handlerPc' = name
    /\ UNCHANGED responses

\* res.status(200).json(...)
Succeed(answer) ==
    /\ responses' = Append(responses, SuccessResponse(answer, handlerQuery))
    /\ handlerPc' = "done"
    /\ UNCHANGED calls

\* a variant that asks for the signed URL whether or not the upload succeeded
UploadSettlesUnchecked(outcome) ==
    /\ handlerPc = "files.upload"
    /\ settled' = Append(settled, outcome)
    /\ Call("files.getSignedUrl")
    /\ UNCHANGED <<handlerRev, request, handlerEnv, clientCreated, allowHeader,
                   handlerQuery, parserVars, ocrVars, resolverVars, viewerVars, appVars>>

\* await client.files.upload(...) settles
UploadSettles(outcome) ==
    /\ handlerPc = "files.upload"
    /\ settled' = Append(settled, outcome)
    /\ IF outcome = "ok" THEN Call("files.getSignedUrl") ELSE Catch(outcome)
    /\ UNCHANGED <<handlerRev, request, handlerEnv, clientCreated, allowHeader,
                   handlerQuery, parserVars, ocrVars, resolverVars, viewerVars, appVars>>

\* await client.files.getSignedUrl(...) settles
SignedUrlSettles(outcome) ==
    /\ handlerPc = "files.getSignedUrl"
    /\ settled' = Append(settled, outcome)
    /\ IF outcome = "ok" THEN Call("ocr.process") ELSE Catch(outcome)
    /\ UNCHANGED <<handlerRev, request, handlerEnv, clientCreated, allowHeader,
                   handlerQuery, parserVars, ocrVars, resolverVars, viewerVars, appVars>>

\* await client.ocr.process(...) settles; without a query the handler answers
OcrSettles(outcome) ==
    /\ handlerPc = "ocr.process"
    /\ settled' = Append(settled, outcome)
    /\ IF outcome # "ok" THEN Catch(outcome)
       ELSE IF ToBoolean(handlerQuery) THEN Call("chat.complete")
       ELSE Succeed(Undefined)
    /\ UNCHANGED <<handlerRev, request, handlerEnv, clientCreated, allowHeader,
                   handlerQuery, parserVars, ocrVars, resolverVars, viewerVars, appVars>>

\* await client.chat.complete(...) settles
ChatSettles(outcome, messageContent) ==
    /\ handlerPc = "chat.complete"
    /\ settled' = Append(settled, outcome)
    /\ IF outcome = "ok" THEN Succeed(ExtractAnswer(messageContent)) ELSE Catch(outcome)
    /\ UNCHANGED <<handlerRev, request, handlerEnv, clientCreated, allowHeader,
                   handlerQuery, parserVars, ocrVars, resolverVars, viewerVars, appVars>>

\* the response is out; the next invocation starts with a fresh req and res
NextRequest ==
    /\ handlerPc = "done"
    /\ handlerPc' = "idle"
    /\ request' = Undefined
    /\ handlerEnv' = Undefined
    /\ clientCreated' = FALSE
    /\ allowHeader' = Undefined
    /\ handlerQuery' = Undefined
    /\ calls' = <<>>
    /\ responses' = <<>>
    /\ settled' = <<>>
    /\ UNCHANGED <<handlerRev, parserVars, ocrVars, resolverVars, viewerVars, appVars>>

---------------------------------------------------------------------------
(* ResultsViewer *)

\* the numbers of the viewer: the integer n, and the number n + 0.5 (a page
\* number is any finite number the engine supplied)
Whole(n) == [n |-> n, half |-> FALSE]
Half(n) == [n |-> n, half |-> TRUE]

\* a < b
LessThan(a, b) == a.n < b.n \/ (a.n = b.n /\ ~a.half /\ b.half)

\* Math.min(a, b), Math.max(a, b)
MathMin(a, b) == IF LessThan(b, a) THEN b ELSE a
MathMax(a, b) == IF LessThan(a, b) THEN b ELSE a

\* a + k for an integer k
Plus(a, k) == [a EXCEPT !.n = @ + k]

totalPages == Whole(Len(viewerPages))

\* Math.min(Math.max(currentPage, 1), Math.max(totalPages, 1))
safeCurrentPage ==
    MathMin(MathMax(currentPage, Whole(1)), MathMax(totalPages, Whole(1)))

\* page = pages[safeCurrentPage - 1]: undefined when that is not an index
\* of pages
viewerPage ==
    IF ~safeCurrentPage.half /\ safeCurrentPage.n \in 1..Len(viewerPages)
    THEN viewerPages[safeCurrentPage.n]
    ELSE Undefined

canPrev == LessThan(Whole(1), safeCurrentPage)
canNext == LessThan(safeCurrentPage, totalPages)

\* the viewer rendered: it has no page card to render (no pages, or the
\* document tab), or the page of the card is defined
Rendered ==
    Len(viewerPages) = 0 \/ activeTab = "document" \/ viewerPage # Undefined

\* the pagination, the zoom buttons and the mini-map are on the screen
ControlsRendered ==
    Len(viewerPages) > 0 /\ activeTab # "document" /\ viewerPage # Undefined

\* the page numbers display pages may carry
ViewerPageNumbers == {Whole(0), Whole(1), Whole(2), Whole(3), Half(1)}

\* the lists of display pages
ViewerPagesInputs ==
    UNION {[1..len -> ViewerPageNumbers] : len \in 0..MaxPages}

\* App renders the viewer with a new pages prop; the viewer's state stays
SetViewerPages(pages) ==
    /\ Rendered
    /\ viewerPages' = pages
    /\ clicked' = Undefined
    /\ UNCHANGED <<currentPage, activeTab, zoom,
                   parserVars, ocrVars, resolverVars, handlerVars, appVars>>

\* canPrev && setCurrentPage((p) => Math.max(p - 1, 1))
handlePrev ==
    /\ ControlsRendered
    /\ currentPage' = IF canPrev THEN MathMax(Plus(currentPage, -1), Whole(1))
                      ELSE currentPage
    /\ clicked' = Undefined
    /\ UNCHANGED <<viewerPages, activeTab, zoom,
                   parserVars, ocrVars, resolverVars, handlerVars, appVars>>

\* canNext && setCurrentPage((p) => Math.min(p + 1, totalPages))
handleNext ==
    /\ ControlsRendered
    /\ currentPage' = IF canNext THEN MathMin(Plus(currentPage, 1), totalPages)
                      ELSE currentPage
    /\ clicked' = Undefined
    /\ UNCHANGED <<viewerPages, activeTab, zoom,
                   parserVars, ocrVars, resolverVars, handlerVars, appVars>>

\* the mini-map entry at position k is clicked: setCurrentPage(p.pageNumber)
handleMiniMapClick(k) ==
    /\ ControlsRendered
    /\ k \in 1..Len(viewerPages)
    /\ currentPage' = viewerPages[k]
    /\ clicked' = viewerPages[k]
    /\ UNCHANGED <<viewerPages, activeTab, zoom,
                   parserVars, ocrVars, resolverVars, handlerVars, appVars>>

\* setActiveTab(tab)
SetActiveTab(tab) ==
    /\ Rendered
    /\ activeTab' = tab
    /\ clicked' = Undefined
    /\ UNCHANGED <<viewerPages, currentPage, zoom,
                   parserVars, ocrVars, resolverVars, handlerVars, appVars>>

\* setZoomPercent(value)
setZoomPercent(value) ==
    /\ ControlsRendered
    /\ zoom' = value
    /\ clicked' = Undefined
    /\ UNCHANGED <<viewerPages, currentPage, activeTab,
                   parserVars, ocrVars, resolverVars, handlerVars, appVars>>

---------------------------------------------------------------------------
(* App: the selected file and its submission *)

PdfMimeType == "application/pdf"

\* a File as validateFile sees it: its name with the extension apart, its
\* MIME type, and whether its size is above FILE_VALIDATION.MAX_SIZE
FileOf(name, extension, type, overMaxSize) ==
    [name |-> name, extension |-> extension, type |-> type, overMaxSize |-> overMaxSize]

\* String.prototype.toLowerCase on the extensions of FileInputs
ExtensionToLowerCase(extension) ==
    CASE extension = "PDF" -> "pdf"
      [] OTHER -> extension

\* validateFile as tests/file-validation.test.ts pins it down: a file above
\* the size limit, of another MIME type or with another extension is refused
validateFile(selectedFile) ==
    IF selectedFile.overMaxSize
    THEN [isValid |-> FALSE, error |-> Str("File too large")]
    ELSE IF selectedFile.type # PdfMimeType
            \/ ExtensionToLowerCase(selectedFile.extension) # "pdf"
    THEN [isValid |-> FALSE, error |-> Str("Only PDF files are supported")]
    ELSE [isValid |-> TRUE, error |-> Undefined]

\* the files the user picks or drops
FileInputs ==
    { FileOf("document", "pdf", PdfMimeType, FALSE),
      FileOf("Document", "PDF", PdfMimeType, FALSE),
      FileOf("large-document", "pdf", PdfMimeType, TRUE),
      FileOf("document", "txt", "text/plain", FALSE),
      FileOf("document", "txt", PdfMimeType, FALSE) }

\* the OcrResponsePayload the proxy returns for the payload built from
\* submittedFile
OcrResponsePayload(submittedFile) == [kind |-> "OcrResponsePayload", of |-> submittedFile]

\* a value thrown inside handleSubmit's try block: whether it is an Error,
\* its message, the phrases its lower-cased message includes, and whether
\* the message has 200 characters or more
Failure(isError, message, includes, long) ==
    [isError |-> isError, message |-> message, includes |-> includes, long |-> long]

DefaultApiErrorMessage == "Unexpected error while calling OCR API."

\* the message handleSubmit's catch block shows for submissionError
CatchMessage(submissionError) ==
    IF ~submissionError.isError THEN "Failed to process document."
    ELSE IF submissionError.includes \cap {"network", "fetch"} # {}
    THEN "Network error. Please check your connection and try again."
    ELSE IF submissionError.includes \cap {"timeout", "timed out"} # {}
    THEN "Request timed out. Please try again with a smaller file."
    ELSE IF submissionError.includes \cap {"file too large", "payload too large"} # {}
    THEN "File is too large. Please choose a file smaller than 4MB."
    ELSE IF submissionError.includes \cap {"invalid", "bad request"} # {}
    THEN "Invalid file or request. Please ensure you selected a valid PDF file."
    ELSE IF submissionError.includes \cap {"unauthorized", "api key"} # {}
    THEN "Authentication error. Please contact support."
    ELSE IF submissionError.includes \cap {"rate limit", "quota"} # {}
    THEN "Service temporarily unavailable. Please try again in a few minutes."
    ELSE IF ~submissionError.long THEN submissionError.message
    ELSE "Failed to process document."

\* what readFileAsBase64 rejects with
ReadFailureInputs ==
    { Failure(TRUE, "Unsupported file reader result.", {}, FALSE),
      Failure(TRUE, "Failed to read file.", {}, FALSE) }

\* what fetch rejects with
FetchFailureInputs ==
    { Failure(TRUE, "Failed to fetch", {"fetch"}, FALSE),
      Failure(TRUE, "The operation timed out.", {"timed out"}, FALSE) }

\* errorData.error?.message of a non-2xx response whose body is JSON;
\* undefined when the body carries none
ErrorDataInputs ==
    { Undefined,
      Failure(TRUE, "Uploaded file exceeds size limit.", {}, FALSE),
      Failure(TRUE, "Invalid request body", {"invalid"}, FALSE),
      Failure(TRUE, "MISTRAL_API_KEY is not set", {"api key"}, FALSE) }

\* the text of a non-2xx response whose body is not JSON
ErrorTextInputs ==
    { Failure(TRUE, "", {}, FALSE),
      Failure(TRUE, "Rate limit exceeded", {"rate limit"}, FALSE),
      Failure(TRUE, "<html>an error page of 200 characters or more</html>", {}, TRUE) }

\* what response.json() of a 2xx response rejects with
JsonFailureInputs ==
    { Failure(TRUE, "Unexpected token < in JSON at position 0", {}, FALSE) }

\* the finally block of handleSubmit, after which the call is over
FinallyKeepsSubmitting ==
    /\ isSubmitting' = isSubmitting
    /\ uploadProgress' = 0
    /\ submitPc' = "idle"
    /\ submitFile' = Null

Finally ==
    /\ isSubmitting' = FALSE
    /\ uploadProgress' = 0
    /\ submitPc' = "idle"
    /\ submitFile' = Null

\* the catch block followed by the finally block
CatchSubmissionError(submissionError) ==
    /\ error' = Str(CatchMessage(submissionError))
    /\ submitOutcome' = "failed"
    /\ Finally
    /\ UNCHANGED <<file, result, isDragOver>>

handleFileSelection(selectedFile) ==
    LET validation == validateFile(selectedFile)
    IN  IF ~validation.isValid
        THEN /\ error' = (IF validation.error # Undefined /\ validation.error.s # ""
                          THEN validation.error ELSE Str("Invalid file"))
             /\ file' = Null
             /\ result' = Null
        ELSE /\ file' = selectedFile
             /\ result' = Null
             /\ error' = Null

\* the file input's onChange; the input is disabled while isSubmitting
handleFileChange(nextFile) ==
    /\ ~isSubmitting
    /\ IF nextFile # Null
       THEN handleFileSelection(nextFile)
       ELSE file' = Null /\ result' = Null /\ error' = Null
    /\ UNCHANGED <<isSubmitting, isDragOver, uploadProgress, submitPc, submitFile,
                   submitOutcome, parserVars, ocrVars, resolverVars, handlerVars,
                   viewerVars>>

handleDragEnter ==
    /\ isDragOver' = TRUE
    /\ UNCHANGED <<file, isSubmitting, result, error, uploadProgress, submitPc,
                   submitFile, submitOutcome, parserVars, ocrVars, resolverVars,
                   handlerVars, viewerVars>>

handleDragLeave ==
    /\ isDragOver' = FALSE
    /\ UNCHANGED <<file, isSubmitting, result, error, uploadProgress, submitPc,
                   submitFile, submitOutcome, parserVars, ocrVars, resolverVars,
                   handlerVars, viewerVars>>

\* onDrop of the upload area, which stays live while isSubmitting
handleDrop(droppedFiles) ==
    /\ isDragOver' = FALSE
    /\ IF Len(droppedFiles) > 0
       THEN handleFileSelection(droppedFiles[1])
       ELSE UNCHANGED <<file, result, error>>
    /\ UNCHANGED <<isSubmitting, uploadProgress, submitPc, submitFile,
                   submitOutcome, parserVars, ocrVars, resolverVars, handlerVars,
                   viewerVars>>

\* handleSubmit up to `await readFileAsBase64(file)`; the submit button is
\* disabled while isSubmitting and while no file is selected
handleSubmit ==
    /\ ~(isSubmitting \/ file = Null)
    /\ IF file = Null
       THEN /\ error' = Str("Please choose a PDF to analyse.")
            /\ UNCHANGED <<isSubmitting, result, uploadProgress, submitPc,
                           submitFile, submitOutcome>>
       ELSE /\ isSubmitting' = TRUE
            /\ error' = Null
            /\ result' = Null
            /\ uploadProgress' = 20
            /\ submitPc' = "readFileAsBase64"
            /\ submitFile' = file
            /\ submitOutcome' = "pending"
    /\ UNCHANGED <<file, isDragOver, parserVars, ocrVars, resolverVars,
                   handlerVars, viewerVars>>

\* readFileAsBase64 resolves: the payload is built and fetch is called
ReadResolves ==
    /\ submitPc = "readFileAsBase64"
    /\ uploadProgress' = 60
    /\ submitPc' = "fetch"
    /\ UNCHANGED <<file, isSubmitting, result, error, isDragOver, submitFile,
                   submitOutcome, parserVars, ocrVars, resolverVars, handlerVars,
                   viewerVars>>

ReadRejects(submissionError) ==
    /\ submitPc = "readFileAsBase64"
    /\ CatchSubmissionError(submissionError)
    /\ UNCHANGED <<parserVars, ocrVars, resolverVars, handlerVars, viewerVars>>

\* fetch resolves with a response; ok tells whether its status is 2xx
FetchResolves(ok) ==
    /\ submitPc = "fetch"
    /\ IF ok
       THEN uploadProgress' = 80 /\ submitPc' = "json"
       ELSE uploadProgress' = uploadProgress /\ submitPc' = "errorJson"
    /\ UNCHANGED <<file, isSubmitting, result, error, isDragOver, submitFile,
                   submitOutcome, parserVars, ocrVars, resolverVars, handlerVars,
                   viewerVars>>

FetchRejects(submissionError) ==
    /\ submitPc = "fetch"
    /\ CatchSubmissionError(submissionError)
    /\ UNCHANGED <<parserVars, ocrVars, resolverVars, handlerVars, viewerVars>>

\* response.json() of a non-2xx response resolves: the Error thrown carries
\* errorData.error.message, or the default message when there is none
ErrorJsonResolves(errorMessage) ==
    /\ submitPc = "errorJson"
    /\ CatchSubmissionError(IF errorMessage # Undefined /\ errorMessage.message # ""
                            THEN errorMessage
                            ELSE Failure(TRUE, DefaultApiErrorMessage, {}, FALSE))
    /\ UNCHANGED <<parserVars, ocrVars, resolverVars, handlerVars, viewerVars>>

\* response.json() of a non-2xx response rejects: response.text() is awaited
ErrorJsonRejects ==
    /\ submitPc = "errorJson"
    /\ submitPc' = "errorText"
    /\ UNCHANGED <<file, isSubmitting, result, error, isDragOver, uploadProgress,
                   submitFile, submitOutcome, parserVars, ocrVars, resolverVars,
                   handlerVars, viewerVars>>

ErrorTextResolves(text) ==
    /\ submitPc = "errorText"
    /\ CatchSubmissionError(text)
    /\ UNCHANGED <<parserVars, ocrVars, resolverVars, handlerVars, viewerVars>>

ErrorTextRejects ==
    /\ submitPc = "errorText"
    /\ CatchSubmissionError(Failure(TRUE, DefaultApiErrorMessage, {}, FALSE))
    /\ UNCHANGED <<parserVars, ocrVars, resolverVars, handlerVars, viewerVars>>

\* response.json() of a 2xx response resolves with the payload
JsonResolves ==
    /\ submitPc = "json"
    /\ result' = OcrResponsePayload(submitFile)
    /\ submitOutcome' = "succeeded"
    /\ Finally
    /\ UNCHANGED <<file, error, isDragOver, parserVars, ocrVars, resolverVars,
                   handlerVars, viewerVars>>

JsonRejects(submissionError) ==
    /\ submitPc = "json"
    /\ CatchSubmissionError(submissionError)
    /\ UNCHANGED <<parserVars, ocrVars, resolverVars, handlerVars, viewerVars>>

---------------------------------------------------------------------------

Init ==
    /\ parserRev \in ParserRevs
    /\ pagesText = <<>>
    /\ formPhase = "editing"
    /\ parsedPages = Undefined
    /\ pagesAccepted = TRUE
    /\ handlerPages = Undefined
    /\ ocrPages = Undefined
    /\ ocrPhase = "receiving"
    /\ displayPages = Arr(<<>>)
    /\ viteApiBaseUrl = Undefined
    /\ windowHostname = Undefined
    /\ apiPath = Undefined
    /\ apiUrl = Undefined
    /\ handlerRev \in HandlerRevs
    /\ request = Undefined
    /\ handlerEnv = Undefined
    /\ handlerPc = "idle"
    /\ clientCreated = FALSE
    /\ allowHeader = Undefined
    /\ handlerQuery = Undefined
    /\ calls = <<>>
    /\ responses = <<>>
    /\ settled = <<>>
    /\ viewerPages = <<>>
    /\ currentPage = Whole(1)
    /\ activeTab = "structured"
    /\ zoom = 100
    /\ clicked = Undefined
    /\ file = Null
    /\ isSubmitting = FALSE
    /\ result = Null
    /\ error = Null
    /\ isDragOver = FALSE
    /\ uploadProgress = 0
    /\ submitPc = "idle"
    /\ submitFile = Null
    /\ submitOutcome = "none"

NextParser ==
    \/ \E c \in TextChars : SetPages(c)
    \/ SubmitPages
    \/ ReceiveFields
    \/ ClearPages

SpecParser == Init /\ [][NextParser]_vars

NextOcr ==
    \/ ReceivePagesArray
    \/ \E page \in PageInputs : ReceivePage(page)
    \/ ShowResult
    \/ ClearResult

SpecOcr == Init /\ [][NextOcr]_vars

NextResolver ==
    \/ \E base \in BaseUrlInputs : BuildWithBaseUrl(base)
    \/ \E host \in WindowHostInputs : OpenPage(host)
    \/ \E path \in PathInputs : resolveApiUrl(path)
    \/ ForgetApiUrl

SpecResolver == Init /\ [][NextResolver]_vars

NextHandler ==
    \/ \E req \in RequestInputs, env \in EnvInputs : ReceiveRequest(req, env)
    \/ \E outcome \in OutcomeInputs : UploadSettles(outcome)
    \/ \E outcome \in OutcomeInputs : SignedUrlSettles(outcome)
    \/ \E outcome \in OutcomeInputs : OcrSettles(outcome)
    \/ \E outcome \in OutcomeInputs, messageContent \in ChatContentInputs :
           ChatSettles(outcome, messageContent)
    \/ NextRequest

SpecHandler == Init /\ [][NextHandler]_vars

NextViewer ==
    \/ \E pages \in ViewerPagesInputs : SetViewerPages(pages)
    \/ handlePrev
    \/ handleNext
    \/ \E k \in 1..MaxPages : handleMiniMapClick(k)
    \/ \E tab \in {"structured", "markdown", "document"} : SetActiveTab(tab)
    \/ \E value \in {100, 125, 150} : setZoomPercent(value)

SpecViewer == Init /\ [][NextViewer]_vars

NextApp ==
    \/ \E nextFile \in FileInputs \cup {Null} : handleFileChange(nextFile)
    \/ handleDragEnter
    \/ handleDragLeave
    \/ \E droppedFiles \in {<<>>} \cup {<<droppedFile>> : droppedFile \in FileInputs} :
           handleDrop(droppedFiles)
    \/ handleSubmit
    \/ ReadResolves
    \/ \E submissionError \in ReadFailureInputs : ReadRejects(submissionError)
    \/ \E ok \in BOOLEAN : FetchResolves(ok)
    \/ \E submissionError \in FetchFailureInputs : FetchRejects(submissionError)
    \/ \E errorMessage \in ErrorDataInputs : ErrorJsonResolves(errorMessage)
    \/ ErrorJsonRejects
    \/ \E text \in ErrorTextInputs : ErrorTextResolves(text)
    \/ ErrorTextRejects
    \/ JsonResolves
    \/ \E submissionError \in JsonFailureInputs : JsonRejects(submissionError)

SpecApp == Init /\ [][NextApp]_vars

\* the awaited promises of a running handleSubmit call settle
Settles ==
    \/ ReadResolves
    \/ \E submissionError \in ReadFailureInputs : ReadRejects(submissionError)
    \/ \E ok \in BOOLEAN : FetchResolves(ok)
    \/ \E submissionError \in FetchFailureInputs : FetchRejects(submissionError)
    \/ \E errorMessage \in ErrorDataInputs : ErrorJsonResolves(errorMessage)
    \/ ErrorJsonRejects
    \/ \E text \in ErrorTextInputs : ErrorTextResolves(text)
    \/ ErrorTextRejects
    \/ JsonResolves
    \/ \E submissionError \in JsonFailureInputs : JsonRejects(submissionError)

SpecAppSettling == Init /\ [][NextApp]_vars /\ WF_vars(Settles)

---------------------------------------------------------------------------
(* What the specification says a page-range text selects *)

\* the pages a segment stands for: a range start-end with 1 <= start <= end
\* stands for start..end, a run of digits greater than 0 for itself, and
\* anything else for nothing
ClaimedContribution(segment) ==
    IF RangeMatch(segment)
    THEN LET start == DigitsValue(RangeStartText(segment))
             end == DigitsValue(RangeEndText(segment))
         IN  IF start >= 1 /\ start <= end THEN start..end ELSE {}
    ELSE IF AllDigits(segment) /\ DigitsValue(segment) > 0
    THEN {DigitsValue(segment)}
    ELSE {}

SegmentsOf(text) == Range(Segments(Trim(text))) \ {<<>>}

ClaimedPages(text) == UNION {ClaimedContribution(segment) : segment \in SegmentsOf(text)}

\* the elements of a finite set of integers in ascending order
Ascending(S) ==
    [i \in 1..Cardinality(S) |->
        CHOOSE x \in S : Cardinality({y \in S : y < x}) = i - 1]

\* a range segment whose start is 0 or greater than its end
DiscardedRange(segment) ==
    /\ RangeMatch(segment)
    /\ \/ DigitsValue(RangeStartText(segment)) = 0
       \/ DigitsValue(RangeStartText(segment)) > DigitsValue(RangeEndText(segment))

ParsedSet == IF IsArray(parsedPages) THEN Range(parsedPages.items) ELSE {}

\* C1: the result of parsePageSelection is undefined or a non-empty, strictly
\* ascending sequence of integers greater than 0.
C1_SortedDistinctPositive ==
    formPhase = "sent" =>
        \/ parsedPages = Undefined
        \/ /\ IsArray(parsedPages)
           /\ Len(parsedPages.items) > 0
           /\ \A i \in 1..Len(parsedPages.items) :
                  /\ parsedPages.items[i] \in Int
                  /\ parsedPages.items[i] > 0
                  /\ \A j \in 1..(i - 1) : parsedPages.items[j] < parsedPages.items[i]

\* C2: a range whose start is 0 or greater than its end contributes no page,
\* and the other segments (ranges and runs of digits) are still processed:
\* the result holds exactly the pages of the other segments.
C2_DiscardedRangeAddsNothing ==
    ( /\ formPhase = "sent"
      /\ \E segment \in SegmentsOf(pagesText) : DiscardedRange(segment)
      /\ \A segment \in SegmentsOf(pagesText) : RangeMatch(segment) \/ AllDigits(segment) )
    => ParsedSet = ClaimedPages(pagesText)

\* C3: a segment that is neither a range nor a run of digits, and the token 0,
\* add nothing; a run of digits greater than 0 adds exactly its value. Stated
\* for the texts that hold no range.
C3_MalformedTokenAddsNothing ==
    ( /\ formPhase = "sent"
      /\ \A segment \in SegmentsOf(pagesText) : ~RangeMatch(segment) )
    => ParsedSet = {DigitsValue(segment) :
                       segment \in {t \in SegmentsOf(pagesText) :
                                       AllDigits(t) /\ DigitsValue(t) > 0}}

\* C4: the result is the sorted union of what the valid ranges and the valid
\* single pages contribute, and nothing else.
C4_SortedUnionOfContributions ==
    formPhase = "sent" =>
        parsedPages = IF ClaimedPages(pagesText) = {} THEN Undefined
                      ELSE Arr(Ascending(ClaimedPages(pagesText)))

\* no segment stands for a page and none starts with a number greater than 0
NothingValid(text) ==
    \A segment \in SegmentsOf(text) :
        /\ ClaimedContribution(segment) = {}
        /\ ~(NumberIsFinite(ParseInt(segment)) /\ ParseInt(segment).n > 0)

\* C5: the result is never an empty array, and it is undefined when the
\* trimmed text is empty and when no segment yields a valid page.
C5_UndefinedWhenNothingValid ==
    formPhase = "sent" =>
        /\ parsedPages # Arr(<<>>)
        /\ Trim(pagesText) = <<>> => parsedPages = Undefined
        /\ NothingValid(pagesText) => parsedPages = Undefined

\* C6: whatever the user types, the pages value the form sends passes the
\* handler's request validation.
C6_PagesNeverRejected ==
    formPhase = "sent" => pagesAccepted

---------------------------------------------------------------------------
(* What the specification says of the display pages *)

Shown == ocrPhase = "shown" /\ IsArray(displayPages)

IsFiniteNumber(v) == v.kind = "number"

C8_PageNumberAtLeastOne ==
    Shown =>
        \A k \in 1..Len(displayPages.items) :
            /\ displayPages.items[k].pageNumber \in Int
            /\ displayPages.items[k].pageNumber >= 1

\* a type that contains title, header or heading
IsHeadingType(type) == type \in {"title", "header", "heading"}

NewLine == "\n"

\* the markdown of one block: "# <text>" for a heading, the text otherwise
ClaimedBlockMarkdown(block) ==
    IF IsHeadingType(block.type) THEN <<"#", " ">> \o Trim(block.text)
    ELSE Trim(block.text)

\* the parts joined by a blank line
RECURSIVE ClaimedJoin(_)
ClaimedJoin(parts) ==
    IF parts = <<>> THEN <<>>
    ELSE IF Len(parts) = 1 THEN parts[1]
    ELSE parts[1] \o <<NewLine, NewLine>> \o ClaimedJoin(Tail(parts))

ClaimedSynthesis(blocks) ==
    LET usable == SelectSeq(blocks, LAMBDA b : Trim(b.text) # <<>>)
    IN  ClaimedJoin([i \in 1..Len(usable) |-> ClaimedBlockMarkdown(usable[i])])

NoMarkdown(page) ==
    page.markdown.kind # "string" \/ Trim(page.markdown.s) = <<>>

\* C9: a page without markdown (or with white space only) that has text
\* blocks gets the markdown synthesized from its blocks.
C9_MarkdownSynthesizedFromBlocks ==
    Shown =>
        \A k \in 1..Len(displayPages.items) :
            ( /\ NoMarkdown(ocrPages.items[k])
              /\ displayPages.items[k].blocks # <<>> )
            => displayPages.items[k].markdown
                   = ClaimedSynthesis(displayPages.items[k].blocks)

\* out is s without its leading and trailing white space
IsTrimmed(out, s) ==
    \E i \in 1..Len(s) : \E j \in i..Len(s) :
        /\ out = SubSeq(s, i, j)
        /\ ~IsWhiteSpace(s[i]) /\ ~IsWhiteSpace(s[j])
        /\ \A a \in 1..(i - 1) : IsWhiteSpace(s[a])
        /\ \A b \in (j + 1)..Len(s) : IsWhiteSpace(s[b])

\* C10: a markdown string that is non-empty after trimming is shown trimmed,
\* whether or not the page has blocks; a page with neither markdown nor
\* blocks has the empty string as markdown.
C10_MarkdownIsTrimmedInput ==
    Shown =>
        \A k \in 1..Len(displayPages.items) :
            LET page == ocrPages.items[k]
                shown == displayPages.items[k]
            IN  /\ shown.markdown \in Seq({" ", "H", "i", "#", NewLine})
                /\ page.markdown.kind = "string"
                       /\ (\E a \in 1..Len(page.markdown.s) : ~IsWhiteSpace(page.markdown.s[a]))
                       => IsTrimmed(shown.markdown, page.markdown.s)
                /\ page.markdown.kind # "string" /\ shown.blocks = <<>>
                       => shown.markdown = <<>>

\* a page with padded markdown and blocks, and a page with neither
C10_Witness ==
    /\ Shown
    /\ \E k \in 1..Len(displayPages.items) :
           /\ ocrPages.items[k].markdown = Str(<<" ", "H", "i", " ">>)
           /\ displayPages.items[k].blocks # <<>>
           /\ displayPages.items[k].markdown = <<"H", "i">>
    /\ \E k \in 1..Len(displayPages.items) :
           /\ ocrPages.items[k].markdown = Undefined
           /\ displayPages.items[k].blocks = <<>>
           /\ displayPages.items[k].markdown = <<>>

\* the entries of an array that are neither null nor undefined, in their order
RECURSIVE WithoutNulls(_)
WithoutNulls(items) ==
    IF items = <<>> THEN <<>>
    ELSE IF Head(items).kind \in {"null", "undefined"} THEN WithoutNulls(Tail(items))
    ELSE <<Head(items)>> \o WithoutNulls(Tail(items))

\* C11: the blocks of a display page are the page's textBlocks without the
\* null and undefined entries, in their original order; they are empty when
\* textBlocks is not an array; no display page holds a null block.
C11_BlocksWithoutNulls ==
    Shown =>
        \A k \in 1..Len(displayPages.items) :
            LET textBlocks == ocrPages.items[k].textBlocks
                blocks == displayPages.items[k].blocks
            IN  /\ IsArray(textBlocks) => blocks = WithoutNulls(textBlocks.items)
                /\ ~IsArray(textBlocks) => blocks = <<>>
                /\ \A b \in 1..Len(blocks) : blocks[b].kind \notin {"null", "undefined"}

\* a page whose textBlocks hold an undefined entry between two blocks, and a
\* page without textBlocks
C11_Witness ==
    /\ Shown
    /\ \E k \in 1..Len(displayPages.items) :
           /\ ocrPages.items[k].textBlocks = Arr(<<ParagraphBlock, Undefined, TitleBlock>>)
           /\ displayPages.items[k].blocks = <<ParagraphBlock, TitleBlock>>
    /\ \E k \in 1..Len(displayPages.items) :
           /\ ocrPages.items[k].textBlocks = Undefined
           /\ displayPages.items[k].blocks = <<>>

\* C12: the result holds one display page per input page, in the input
\* order: the page at position k comes from the input page at position k,
\* also when the page numbers are out of order or repeated.
C12_OnePagePerInputInOrder ==
    Shown =>
        /\ IsArray(ocrPages) => Len(displayPages.items) = Len(ocrPages.items)
        /\ ~IsArray(ocrPages) => Len(displayPages.items) = 0
        /\ \A k \in 1..Len(displayPages.items) :
               LET page == ocrPages.items[k]
                   shown == displayPages.items[k]
               IN  /\ IsFiniteNumber(page.pageNumber) => shown.pageNumber = page.pageNumber.n
                   /\ IsArray(page.textBlocks) => shown.blocks = WithoutNulls(page.textBlocks.items)
                   /\ page.markdown.kind # "string" => shown.markdown = <<>>

\* the page numbers of the input are out of order, or repeated
C12_Witness ==
    /\ Shown
    /\ Len(displayPages.items) = 2
    /\ IsFiniteNumber(ocrPages.items[1].pageNumber)
    /\ IsFiniteNumber(ocrPages.items[2].pageNumber)
    /\ ocrPages.items[1].pageNumber.n >= ocrPages.items[2].pageNumber.n
    /\ displayPages.items[1].pageNumber = ocrPages.items[1].pageNumber.n
    /\ displayPages.items[2].pageNumber = ocrPages.items[2].pageNumber.n

\* C13: prepareDisplayPages never raises: an input that is not an array gives
\* the empty sequence, and an array with partial pages or with null or
\* undefined entries still gives a result.
C13_NeverRaises ==
    ocrPhase = "shown" =>
        /\ displayPages # Thrown
        /\ IsArray(displayPages)
        /\ ~IsArray(ocrPages) => displayPages = Arr(<<>>)

---------------------------------------------------------------------------
(* What the specification says of the API URL *)

EndsWith(s, suffix) ==
    Len(s) >= Len(suffix) /\ SubSeq(s, Len(s) - Len(suffix) + 1, Len(s)) = suffix

\* 127.x.x.x: 127 and three more groups of one to three digits
IsDottedLoopback(host) ==
    \E a, b, c \in 1..Len(host) :
        /\ a < b /\ b < c
        /\ host[a] = "." /\ host[b] = "." /\ host[c] = "."
        /\ SubSeq(host, 1, a - 1) = <<"1", "2", "7">>
        /\ \A part \in {SubSeq(host, a + 1, b - 1), SubSeq(host, b + 1, c - 1),
                        SubSeq(host, c + 1, Len(host))} :
               AllDigits(part) /\ Len(part) <= 3

\* localhost, any *.localhost, ::1 and [::1]
IsLoopbackName(host) ==
    \/ host = LocalhostLabel
    \/ EndsWith(host, <<".">> \o LocalhostLabel)
    \/ host \in {<<":", ":", "1">>, <<"[", ":", ":", "1", "]">>}

\* loopback, with every hostname that starts with "127." counted in
LoopbackByPrefix(host) ==
    IsLoopbackName(host) \/ StartsWith(host, <<"1", "2", "7", ".">>)

\* loopback, with the addresses 127.x.x.x counted in
LoopbackByAddress(host) ==
    IsLoopbackName(host) \/ IsDottedLoopback(host)

Resolved == apiUrl # Undefined

\* a base is configured: it is not undefined, empty or white space
HasBase == viteApiBaseUrl # Undefined /\ Trim(viteApiBaseUrl.s) # <<>>

\* the URL the path resolves to against the configured base
Target == NewURL(apiPath.s, Str(Trim(viteApiBaseUrl.s)))

ApiOcrPath == <<"/", "a", "p", "i", "/", "o", "c", "r">>
PublicHost == <<"a", "p", "i", ".", "i", "o">>
PrefixHost == <<"1", "2", "7", ".", "a", ".", "i", "o">>

\* C14 as stated: on a page whose hostname is not loopback, a target whose
\* hostname is localhost, *.localhost, starts with "127.", or is ::1 / [::1]
\* makes the resolver return the path unchanged.
C14_LoopbackByPrefixGivesPath ==
    ( /\ Resolved /\ HasBase
      /\ windowHostname # Undefined
      /\ ~LoopbackByPrefix(windowHostname.s)
      /\ Target # Thrown
      /\ LoopbackByPrefix(Target.hostname) )
    => apiUrl = apiPath

\* C14 amended: on a page whose hostname is not loopback, where loopback is
\* localhost, *.localhost, an address 127.x.x.x, or ::1 / [::1], a target
\* with a loopback hostname makes the resolver return the path unchanged,
\* and the resolver returns no resolved URL whose host is loopback.
C14_LoopbackByAddressGivesPath ==
    ( /\ Resolved
      /\ windowHostname # Undefined
      /\ ~LoopbackByAddress(windowHostname.s) )
    => /\ ( HasBase /\ Target # Thrown /\ LoopbackByAddress(Target.hostname) )
           => apiUrl = apiPath
       /\ \/ apiUrl = apiPath
          \/ /\ apiUrl.kind = "string"
             /\ ParseAbsoluteUrl(apiUrl.s) # Thrown
             /\ ~LoopbackByAddress(ParseAbsoluteUrl(apiUrl.s).hostname)

\* the base http://localhost:3000 on the page api.io: /api/ocr stays as it is
C14_Witness ==
    /\ Resolved
    /\ windowHostname = Str(PublicHost)
    /\ viteApiBaseUrl = Str(HttpScheme \o SchemeEnd \o LocalhostLabel
                               \o <<":", "3", "0", "0", "0">>)
    /\ apiPath = Str(ApiOcrPath)
    /\ apiUrl = Str(ApiOcrPath)

\* C15: a hostname that starts with 127 but is not an address 127.x.x.x is
\* not loopback: on a page whose hostname is not loopback the resolver
\* returns the fully resolved URL for such a target.
C15_PrefixHostIsResolved ==
    ( /\ Resolved /\ HasBase
      /\ windowHostname # Undefined
      /\ ~LoopbackByAddress(windowHostname.s)
      /\ Target # Thrown
      /\ StartsWith(Target.hostname, <<"1", "2", "7">>)
      /\ ~IsDottedLoopback(Target.hostname) )
    => apiUrl = Str(UrlToString(Target))

\* the base http://127.a.io on the page api.io: http://127.a.io/api/ocr
C15_Witness ==
    /\ Resolved
    /\ windowHostname = Str(PublicHost)
    /\ viteApiBaseUrl = Str(HttpScheme \o SchemeEnd \o PrefixHost)
    /\ apiPath = Str(ApiOcrPath)
    /\ apiUrl = Str(HttpScheme \o SchemeEnd \o PrefixHost \o ApiOcrPath)

\* C16: with a base that is undefined, empty or white space the resolver
\* returns the path it was given, for every path and every page hostname.
C16_NoBaseGivesPath ==
    ( Resolved /\ ~HasBase ) => apiUrl = apiPath

\* a white-space base and an absolute path, on a page; and an undefined base
\* and an absolute path, without a window
C16_Witness ==
    /\ Resolved
    /\ apiPath = Str(HttpScheme \o SchemeEnd \o LocalhostLabel)
    /\ apiUrl = apiPath
    /\ \/ viteApiBaseUrl = Str(<<" ">>) /\ windowHostname = Str(PublicHost)
       \/ viteApiBaseUrl = Undefined /\ windowHostname = Undefined

\* C17: the resolver never throws; when the URL cannot be constructed it
\* returns the path; its result is always the path or the resolved URL.
C17_PathOrResolvedUrl ==
    Resolved =>
        /\ apiUrl # Thrown
        /\ apiUrl.kind = "string"
        /\ \/ apiUrl = apiPath
           \/ HasBase /\ Target # Thrown /\ apiUrl = Str(UrlToString(Target))
        /\ ( HasBase /\ Target = Thrown ) => apiUrl = apiPath

\* the base api.io has no scheme: new URL throws and the path comes back
C17_Witness ==
    /\ Resolved
    /\ viteApiBaseUrl = Str(PublicHost)
    /\ HasBase /\ Target = Thrown
    /\ apiPath = Str(ApiOcrPath)
    /\ apiUrl = Str(ApiOcrPath)

---------------------------------------------------------------------------
(* What the specification says of the handler *)

\* upload, sign, OCR, optional chat completion
CallOrder == <<"files.upload", "files.getSignedUrl", "ocr.process", "chat.complete">>

\* C18: the collaborator calls of a request are made in the order
\* files.upload, files.getSignedUrl, ocr.process, chat.complete; a call is
\* made only after every earlier call succeeded, and after a call failed no
\* further call is made.
C18_CallsInOrder ==
    /\ Len(calls) <= Len(CallOrder)
    /\ calls = SubSeq(CallOrder, 1, Len(calls))
    /\ Len(settled) <= Len(calls)
    /\ Len(calls) <= Len(settled) + 1
    /\ \A i \in 1..(Len(calls) - 1) : settled[i] = "ok"
    /\ \A i \in 1..Len(settled) : settled[i] # "ok" => Len(calls) = i

\* a request with a query whose OCR call failed: no chat completion follows
C18_Witness ==
    /\ handlerPc = "done"
    /\ ToBoolean(handlerQuery)
    /\ calls = SubSeq(CallOrder, 1, 3)
    /\ settled = <<"ok", "ok", "error">>
    /\ Len(responses) = 1 /\ responses[1].status = 500

\* a string that is not empty after trimming
HasQuery(query) ==
    /\ query.kind = "string"
    /\ \E i \in 1..Len(query.s) : ~IsWhiteSpace(query.s[i])

\* C19: chat.complete is called only for a request whose query is a string
\* that is non-empty after trimming, and once the OCR call succeeded it is
\* called exactly for those; a success response carries qaModel exactly for
\* those, and no answer for the others.
C19_ChatIffQuery ==
    /\ "chat.complete" \in Range(calls) => HasQuery(request.body.query)
    /\ ( Len(settled) >= 3 /\ settled[3] = "ok" )
           => ( "chat.complete" \in Range(calls) <=> HasQuery(request.body.query) )
    /\ \A i \in 1..Len(responses) :
           responses[i].status = 200
           => /\ responses[i].qaModel # Undefined <=> HasQuery(request.body.query)
              /\ ~HasQuery(request.body.query) => responses[i].answer = Undefined

\* a padded query: the chat completion is called and its answer is sent
C19_Witness ==
    /\ handlerPc = "done"
    /\ calls = CallOrder
    /\ request.body.query = Str(<<" ", "q", " ">>)
    /\ Len(responses) = 1
    /\ responses[1].status = 200
    /\ responses[1].qaModel = QaModel
    /\ responses[1].answer = Str(<<"a">>)

\* the body has a non-empty fileBase64 and well-typed pages and query
WellFormedUpload(req) ==
    /\ req.method = "POST"
    /\ req.body # Undefined
    /\ req.body.fileBase64 # Undefined
    /\ req.body.fileBase64.length > 0
    /\ req.body.query.kind \in {"string", "null", "undefined"}
    /\ req.body.pages = Undefined \/ req.body.pages = Arr(<<1, 2>>)

\* the configured maximum is a number: MAX_UPLOAD_BYTES is unset (4.5 MiB)
\* or a run of digits
MaxIsNumber(env) ==
    env.MAX_UPLOAD_BYTES = Undefined \/ AllDigits(env.MAX_UPLOAD_BYTES.s)

ClaimedMax(env) ==
    IF env.MAX_UPLOAD_BYTES = Undefined THEN 9 * 512 * 1024
    ELSE DigitsValue(env.MAX_UPLOAD_BYTES.s)

\* C20: a file whose decoded content is larger than the configured maximum
\* is answered with 413 and files.upload is never called for it; a file of
\* exactly the maximum size is not answered with 413.
C20_OversizeRejectedBeforeUpload ==
    ( /\ handlerPc # "idle"
      /\ WellFormedUpload(request)
      /\ MaxIsNumber(handlerEnv) )
    => LET size == DecodedLength(request.body.fileBase64)
       IN  /\ size > ClaimedMax(handlerEnv)
               => /\ "files.upload" \notin Range(calls)
                  /\ Len(responses) = 1
                  /\ responses[1].status = 413
           /\ size = ClaimedMax(handlerEnv)
               => \A i \in 1..Len(responses) : responses[i].status # 413

\* C21: a request whose method is not POST gets status 405, the header
\* Allow: POST and the error Method Not Allowed; no client is created, no
\* collaborator is called and nothing of the body is taken over.
C21_MethodNotAllowed ==
    ( handlerPc # "idle" /\ request.method # "POST" )
    => /\ handlerPc = "done"
       /\ Len(responses) = 1
       /\ responses[1].status = 405
       /\ responses[1].error.message = "Method Not Allowed"
       /\ allowHeader = Str(<<"P", "O", "S", "T">>)
       /\ calls = <<>>
       /\ ~clientCreated
       /\ handlerQuery = Undefined

\* a GET that carries a complete body and a query
C21_Witness ==
    /\ handlerPc = "done"
    /\ request.method = "GET"
    /\ request.body # Undefined
    /\ request.body.fileBase64 = Base64(16, 0)
    /\ request.body.query = Str(<<" ", "q", " ">>)
    /\ responses[1].status = 405
    /\ allowHeader = Str(<<"P", "O", "S", "T">>)

\* the body is missing, or its fileBase64 is missing or the empty string
NoFile(req) ==
    \/ req.body = Undefined
    \/ req.body.fileBase64 = Undefined
    \/ req.body.fileBase64 = Base64(0, 0)

\* C22: a POST whose body is missing or has no non-empty fileBase64 gets
\* status 400; no client is created and no collaborator is called.
C22_MissingFileIsBadRequest ==
    ( handlerPc # "idle" /\ request.method = "POST" /\ NoFile(request) )
    => /\ handlerPc = "done"
       /\ Len(responses) = 1
       /\ responses[1].status = 400
       /\ calls = <<>>
       /\ ~clientCreated

\* a POST whose fileBase64 is the empty string, with the API key set
C22_Witness ==
    /\ handlerPc = "done"
    /\ request.method = "POST"
    /\ request.body # Undefined
    /\ request.body.fileBase64 = Base64(0, 0)
    /\ ToBoolean(handlerEnv.MISTRAL_API_KEY)
    /\ responses[1].status = 400
    /\ calls = <<>>

\* a collaborator call of this request failed
SomeCallFailed == \E i \in 1..Len(settled) : settled[i] # "ok"

\* C23: the handler sends exactly one response per request and never more;
\* when the client cannot be created (no MISTRAL_API_KEY) or a collaborator
\* call fails, that response has status 500 and carries the error's message,
\* and no success response is sent.
C23_OneResponseAndFailuresAre500 ==
    /\ Len(responses) <= 1
    /\ handlerPc = "done" <=> Len(responses) = 1
    /\ SomeCallFailed
       => /\ handlerPc = "done"
          /\ responses[1].status = 500
          /\ responses[1].error.message
                 = IF settled[Len(settled)] = "error" THEN "collaborator failed"
                   ELSE "Unexpected server error."
    /\ ( /\ handlerPc # "idle"
         /\ WellFormedUpload(request)
         /\ ~ToBoolean(handlerEnv.MISTRAL_API_KEY) )
       => /\ handlerPc = "done"
          /\ responses[1].status = 500
          /\ responses[1].error.message = "Missing MISTRAL_API_KEY environment variable."
          /\ calls = <<>>

\* the signing call rejected with an Error after the upload succeeded
C23_Witness ==
    /\ handlerPc = "done"
    /\ settled = <<"ok", "error">>
    /\ Len(responses) = 1
    /\ responses[1].status = 500
    /\ responses[1].error.message = "collaborator failed"

---------------------------------------------------------------------------
(* The page index of the engine *)

---------------------------------------------------------------------------
(* What the specification says of the results viewer *)

\* C25: after a click on the mini-map entry of a page the viewer displays
\* that page: the displayed page's pageNumber is the clicked one, also for
\* lists whose page numbers do not start at 1 or are not consecutive.
C25_MiniMapShowsClickedPage ==
    clicked # Undefined =>
        /\ viewerPage # Undefined
        /\ viewerPage = clicked

\* C29: the displayed position is at least 1 and at most max(totalPages, 1),
\* and whenever there are pages the displayed page is an entry of pages.
C29_PositionWithinPages ==
    /\ ~LessThan(safeCurrentPage, Whole(1))
    /\ ~LessThan(MathMax(totalPages, Whole(1)), safeCurrentPage)
    /\ Len(viewerPages) > 0
           => /\ viewerPage # Undefined
              /\ viewerPage \in Range(viewerPages)

\* C26: whenever App holds a result, it is the payload of a submission of
\* the file that is selected now; a file chosen or dropped while an earlier
\* submission is in flight is never shown with the earlier file's result
C26_ResultIsOfSelectedFile ==
    result # Null => result.of = file

\* C27: App never holds a result and an error at the same time
C27_NotBothResultAndError ==
    ~(result # Null /\ error # Null)

\* C28: when the awaited promises settle, every handleSubmit call that
\* starts ends with isSubmitting false and uploadProgress 0, and a call
\* that ended in the catch block leaves result null
C28_SubmissionEnds ==
    /\ isSubmitting ~> (~isSubmitting /\ uploadProgress = 0)
    /\ [](submitOutcome = "failed" => result = Null)

\* a submission that got a non-2xx response has ended
C28_Witness ==
    /\ submitOutcome = "failed"
    /\ error = Str("Authentication error. Please contact support.")
    /\ submitPc = "idle"
    /\ ~isSubmitting
    /\ uploadProgress = 0
    /\ result = Null

\* C30: for every pages string the multipart handler's parsing gives what
\* parsePageSelection gives: the same pages in the same order, and undefined
\* (no restriction) when nothing valid remains
C30_MultipartPagesAsParsePageSelection ==
    formPhase = "received" => handlerPages = parsedPages

=============================================================================
